---- MODULE Spec2Model ----
(***************************************************************************)
(* The per-tick market-making engine of stage1/auto.py: Trader.run, the    *)
(* MarketMakingStrategy policy with its rolling liquidation window, the    *)
(* two true-value estimators, and the JSON text that carries the windows   *)
(* from one tick to the next.                                              *)
(*                                                                         *)
(* Numbers that Python holds as floats (the KELP true value and the prices *)
(* derived from it) are exact rationals [n, d] with d > 0.  A JSON text is *)
(* the sequence of its tokens.                                             *)
(***************************************************************************)
EXTENDS Integers, Sequences, FiniteSets, TLC

VARIABLES
    strategies,   \* Trader.strategies of the long-lived Trader: symbol -> instance fields
    traderData,   \* the state string the caller holds for the long-lived Trader
    last,         \* what the long-lived Trader's latest run was given and returned
    freshData,    \* the state string the caller holds for the Trader built anew every tick
    lastFresh,    \* what the latest freshly constructed Trader was given and returned
    ticks,        \* number of calls of Trader.run so far
    varied,       \* number of ticks so far whose snapshot was not a saturated one
    streak,       \* per product: its latest consecutive processed ticks at the limit, up to window_size
    verbatim,     \* the caller has passed every returned state string back unchanged
    pc            \* "idle", or "raised" once a run ended in an exception

vars == <<strategies, traderData, last, freshData, lastFresh, ticks, varied,
          streak, verbatim, pc>>

-----------------------------------------------------------------------------
(* Bounds of the exploration. *)

MaxTicks == 11        \* calls of Trader.run in one run of the verbatim caller
MaxVaried == 2        \* of which at most this many lack a product or see one off its limit
MaxReplayTicks == 2   \* calls of Trader.run once the caller has substituted a string

-----------------------------------------------------------------------------
(* Configuration: Trader.__init__ and MarketMakingStrategy.__init__. *)

RESIN == "RAINFOREST_RESIN"
KELP == "KELP"

\* the keys of self.strategies, in the dict's iteration order
Symbols == <<RESIN, KELP>>

limits == [s \in {RESIN, KELP, "SQUID_INK"} |-> 50]

window_size == 10

resin_true_value == 10000

\* the bias 0.13 added by KelpStrategy.get_true_value, in hundredths
kelp_bias_hundredths == 13

-----------------------------------------------------------------------------
(* Numbers: n/d with d > 0.  An int i is Num(i, 1). *)

Num(n, d) == [n |-> n, d |-> d]

FromInt(i) == Num(i, 1)

\* a + i for an int i
AddInt(a, i) == Num(a.n + i * a.d, a.d)

\* a <= b, a < b
Le(a, b) == a.n * b.d <= b.n * a.d
Lt(a, b) == a.n * b.d < b.n * a.d

\* Python's min(a, b) and max(a, b): the first argument wins a tie
PyMin(a, b) == IF Lt(b, a) THEN b ELSE a
PyMax(a, b) == IF Lt(a, b) THEN b ELSE a

IsIntegral(a) == a.n % a.d = 0

-----------------------------------------------------------------------------
(* JSON text.  json.dumps(new_trader_data, separators=(",", ":")) and       *)
(* json.loads(state.traderData), over the values the state string holds:   *)
(* an object whose members are lists of booleans, null or a number.        *)

Quote(key) == <<"\"", key, "\"">>

JList(items) == [kind |-> "list", items |-> items]
JNull == [kind |-> "null", items |-> <<>>]
JNumber == [kind |-> "number", items |-> <<>>]

DumpBool(b) == IF b THEN "true" ELSE "false"

RECURSIVE DumpItems(_)
DumpItems(items) ==
    IF items = <<>> THEN <<>>
    ELSE IF Len(items) = 1 THEN <<DumpBool(items[1])>>
    ELSE <<DumpBool(items[1]), ",">> \o DumpItems(Tail(items))

DumpValue(v) ==
    IF v.kind = "list" THEN <<"[">> \o DumpItems(v.items) \o <<"]">>
    ELSE IF v.kind = "null" THEN <<"null">>
    ELSE <<"5">>

\* members: the dict's items in insertion order, a sequence of <<key, value>>
RECURSIVE DumpMembers(_)
DumpMembers(members) ==
    IF members = <<>> THEN <<>>
    ELSE LET m == Quote(members[1][1]) \o <<":">> \o DumpValue(members[1][2])
         IN  IF Len(members) = 1 THEN m
             ELSE m \o <<",">> \o DumpMembers(Tail(members))

dumps(members) == <<"{">> \o DumpMembers(members) \o <<"}">>

ParseError == [ok |-> FALSE, value |-> JNull, next |-> 0]

Tok(s, i) == IF i >= 1 /\ i <= Len(s) THEN s[i] ELSE "<end>"

\* ParseElements with each element put in front of those read before it
RECURSIVE ParseElementsReversed(_, _, _)
ParseElementsReversed(s, i, acc) ==
    IF Tok(s, i) \notin {"true", "false"} THEN ParseError
    ELSE LET items == <<Tok(s, i) = "true">> \o acc
         IN  IF Tok(s, i + 1) = "]"
                 THEN [ok |-> TRUE, value |-> JList(items), next |-> i + 2]
             ELSE IF Tok(s, i + 1) = ","
                 THEN ParseElementsReversed(s, i + 2, items)
             ELSE ParseError

\* the elements of a non-empty list, the first one at s[i]
RECURSIVE ParseElements(_, _, _)
ParseElements(s, i, acc) ==
    IF Tok(s, i) \notin {"true", "false"} THEN ParseError
    ELSE LET items == Append(acc, Tok(s, i) = "true")
         IN  IF Tok(s, i + 1) = "]"
                 THEN [ok |-> TRUE, value |-> JList(items), next |-> i + 2]
             ELSE IF Tok(s, i + 1) = ","
                 THEN ParseElements(s, i + 2, items)
             ELSE ParseError

ParseValue(s, i) ==
    IF Tok(s, i) = "null" THEN [ok |-> TRUE, value |-> JNull, next |-> i + 1]
    ELSE IF Tok(s, i) = "5" THEN [ok |-> TRUE, value |-> JNumber, next |-> i + 1]
    ELSE IF Tok(s, i) = "["
        THEN IF Tok(s, i + 1) = "]"
                 THEN [ok |-> TRUE, value |-> JList(<<>>), next |-> i + 2]
             ELSE ParseElements(s, i + 1, <<>>)
    ELSE ParseError

\* a later member with a key seen before replaces the earlier one
Put(dict, key, value) ==
    [k \in DOMAIN dict \cup {key} |-> IF k = key THEN value ELSE dict[k]]

EmptyDict == [k \in {} |-> JNull]

Undecodable == [ok |-> FALSE, kind |-> "none", dict |-> EmptyDict]

\* the members of a non-empty object, the first key's opening quote at s[i]
RECURSIVE ParseMembers(_, _, _)
ParseMembers(s, i, dict) ==
    IF ~(Tok(s, i) = "\"" /\ Tok(s, i + 2) = "\"" /\ Tok(s, i + 3) = ":")
        THEN Undecodable
    ELSE LET v == ParseValue(s, i + 4)
         IN  IF ~v.ok THEN Undecodable
             ELSE IF Tok(s, v.next) = "}" /\ v.next = Len(s)
                 THEN [ok |-> TRUE, kind |-> "object",
                       dict |-> Put(dict, s[i + 1], v.value)]
             ELSE IF Tok(s, v.next) = ","
                 THEN ParseMembers(s, v.next + 1, Put(dict, s[i + 1], v.value))
             ELSE Undecodable

\* a text that is a list, null or a number rather than an object
TopLevel(s, v) ==
    IF v.ok /\ v.next = Len(s) + 1
        THEN [ok |-> TRUE, kind |-> v.value.kind, dict |-> EmptyDict]
    ELSE Undecodable

\* json.loads: ok = FALSE stands for json.JSONDecodeError; kind is the type of
\* the decoded value and dict its members when it is an object
loads(s) ==
    IF Tok(s, 1) # "{" THEN TopLevel(s, ParseValue(s, 1))
    ELSE IF Tok(s, 2) = "}" /\ Len(s) = 2
        THEN [ok |-> TRUE, kind |-> "object", dict |-> EmptyDict]
    ELSE ParseMembers(s, 2, EmptyDict)

-----------------------------------------------------------------------------
(* Order books.  OrderDepth.buy_orders and sell_orders map a price to a     *)
(* volume; sell volumes are negative.                                      *)

MinOf(S) == CHOOSE x \in S : \A y \in S : x <= y
MaxOf(S) == CHOOSE x \in S : \A y \in S : x >= y

\* sorted(d.items()): <<price, volume>> pairs by ascending price
RECURSIVE SortedItems(_)
SortedItems(d) ==
    IF DOMAIN d = {} THEN <<>>
    ELSE LET p == MinOf(DOMAIN d)
         IN  <<<<p, d[p]>>>> \o SortedItems([q \in DOMAIN d \ {p} |-> d[q]])

\* sorted(d.items(), reverse=True)
RECURSIVE SortedItemsReverse(_)
SortedItemsReverse(d) ==
    IF DOMAIN d = {} THEN <<>>
    ELSE LET p == MaxOf(DOMAIN d)
         IN  <<<<p, d[p]>>>> \o SortedItemsReverse([q \in DOMAIN d \ {p} |-> d[q]])

\* popular_buy_price taking the level with the least orders (min for max)
popular_buy_price_least(buy_orders) ==
    LET i == CHOOSE k \in 1..Len(buy_orders) :
                 /\ \A j \in 1..Len(buy_orders) : buy_orders[j][2] >= buy_orders[k][2]
                 /\ \A j \in 1..(k - 1) : buy_orders[j][2] > buy_orders[k][2]
    IN  buy_orders[i][1]

\* max(items, key=lambda tup: tup[1])[0]: the first pair of greatest volume
popular_buy_price(buy_orders) ==
    LET i == CHOOSE k \in 1..Len(buy_orders) :
                 /\ \A j \in 1..Len(buy_orders) : buy_orders[j][2] <= buy_orders[k][2]
                 /\ \A j \in 1..(k - 1) : buy_orders[j][2] < buy_orders[k][2]
    IN  buy_orders[i][1]

\* min(items, key=lambda tup: tup[1])[0]: the first pair of least volume
popular_sell_price(sell_orders) ==
    LET i == CHOOSE k \in 1..Len(sell_orders) :
                 /\ \A j \in 1..Len(sell_orders) : sell_orders[j][2] >= sell_orders[k][2]
                 /\ \A j \in 1..(k - 1) : sell_orders[j][2] > sell_orders[k][2]
    IN  sell_orders[i][1]

-----------------------------------------------------------------------------
(* Orders.  Strategy.buy and Strategy.sell append Order(symbol, price,     *)
(* quantity) to self.orders; book.steps and book.sides record, beside     *)
(* each order, the step of act that placed it and the method it called.    *)

Order(symbol, price, quantity) ==
    [symbol |-> symbol, price |-> price, quantity |-> quantity]

buy(book, symbol, price, quantity, step) ==
    [orders |-> Append(book.orders, Order(symbol, price, quantity)),
     steps  |-> Append(book.steps, step),
     sides  |-> Append(book.sides, "buy")]

sell(book, symbol, price, quantity, step) ==
    [orders |-> Append(book.orders, Order(symbol, price, -quantity)),
     steps  |-> Append(book.steps, step),
     sides  |-> Append(book.sides, "sell")]

NoOrders == [orders |-> <<>>, steps |-> <<>>, sides |-> <<>>]

-----------------------------------------------------------------------------
(* True-value estimators. *)

\* RainforestResinStrategy.get_true_value: the instance's makeTrades is left alone
ResinTrueValue(self, state) ==
    [value |-> FromInt(resin_true_value), makeTrades |-> self.makeTrades]

\* 100 * ((cur_time - i.timestamp) / 100 + 1)
Weight100(cur_time, trade) == cur_time - trade.timestamp + 100

RECURSIVE PriceSum100(_, _)
PriceSum100(cur_time, trades) ==
    IF trades = <<>> THEN 0
    ELSE trades[1].price * trades[1].quantity * Weight100(cur_time, trades[1])
         + PriceSum100(cur_time, Tail(trades))

RECURSIVE TimeWeight100(_, _)
TimeWeight100(cur_time, trades) ==
    IF trades = <<>> THEN 0
    ELSE Weight100(cur_time, trades[1]) * trades[1].quantity
         + TimeWeight100(cur_time, Tail(trades))

\* price_sum / time_weight + 0.13
WeightedAverage(ps, tw) ==
    IF tw > 0 THEN Num(100 * ps + kelp_bias_hundredths * tw, 100 * tw)
    ELSE Num(-(100 * ps + kelp_bias_hundredths * tw), -(100 * tw))

\* KelpTrueValue without `self.makeTrades = False` on the paths that return 0
KelpTrueValueStillTrading(self, state) ==
    IF DOMAIN state.market_trades = {} \/ KELP \notin DOMAIN state.market_trades
        THEN [value |-> FromInt(0), makeTrades |-> TRUE]
    ELSE IF TimeWeight100(state.timestamp, state.market_trades[KELP]) = 0
        THEN [value |-> FromInt(0), makeTrades |-> ~(Len(state.market_trades[KELP]) < 2)]
    ELSE [value |-> WeightedAverage(PriceSum100(state.timestamp, state.market_trades[KELP]),
                                    TimeWeight100(state.timestamp, state.market_trades[KELP])),
          makeTrades |-> TRUE]

KelpTrueValue(self, state) ==
    IF DOMAIN state.market_trades = {} \/ KELP \notin DOMAIN state.market_trades
        THEN [value |-> FromInt(0), makeTrades |-> FALSE]
    ELSE LET temp == state.market_trades[KELP]
             price_sum == PriceSum100(state.timestamp, temp)
             time_weight == TimeWeight100(state.timestamp, temp)
         IN  IF time_weight = 0
                 THEN [value |-> FromInt(0), makeTrades |-> FALSE]
             ELSE [value |-> WeightedAverage(price_sum, time_weight),
                   makeTrades |-> ~(Len(temp) < 2)]

get_true_value(self, state) ==
    IF self.symbol = KELP THEN KelpTrueValue(self, state)
    ELSE ResinTrueValue(self, state)

-----------------------------------------------------------------------------
(* MarketMakingStrategy.  An instance is [symbol, limit, window,           *)
(* makeTrades]; the window is a sequence of booleans, oldest first.        *)

\* MarketMakingStrategy.__init__
NewStrategy(symbol, limit) ==
    [symbol |-> symbol, limit |-> limit, window |-> <<>>, makeTrades |-> TRUE]

\* AppendWindow dropping the newest entry instead of the oldest
AppendWindowDropsNewest(window, flag) ==
    IF Len(window) >= window_size THEN window ELSE Append(window, flag)

\* self.window.append(abs(position) == self.limit), then popleft() when too long
AppendWindow(window, flag) ==
    LET w == Append(window, flag)
    IN  IF Len(w) > window_size THEN Tail(w) ELSE w

\* sum(self.window)
CountTrue(window) == Cardinality({i \in 1..Len(window) : window[i]})

\* SoftLiquidate measuring half of the entries held, whatever their number
SoftLiquidateShortWindow(window) ==
    /\ 2 * CountTrue(window) >= Len(window)
    /\ window[Len(window)]

\* SoftLiquidate with the comparison of the count turned round
SoftLiquidateMinority(window) ==
    /\ Len(window) = window_size
    /\ 2 * CountTrue(window) <= window_size
    /\ window[Len(window)]

\* SoftLiquidate reading the oldest entry, window[0], for the most recent
SoftLiquidateOldest(window) ==
    /\ Len(window) = window_size
    /\ 2 * CountTrue(window) >= window_size
    /\ window[1]

\* len(window) == window_size and sum(window) >= window_size / 2 and window[-1]
SoftLiquidate(window) ==
    /\ Len(window) = window_size
    /\ 2 * CountTrue(window) >= window_size
    /\ window[Len(window)]

\* HardLiquidate without the test of the window's length
HardLiquidateAnyLength(window) ==
    \A i \in 1..Len(window) : window[i]

\* len(window) == window_size and all(window)
HardLiquidate(window) ==
    /\ Len(window) = window_size
    /\ \A i \in 1..Len(window) : window[i]

\* true_value - 1 if position > self.limit * 0.5 else true_value
MaxBuyPrice(true_value, position, limit) ==
    IF 2 * position > limit THEN AddInt(true_value, -1) ELSE true_value

\* true_value + 1 if position < self.limit * -0.5 else true_value
MinSellPrice(true_value, position, limit) ==
    IF 2 * position < -limit THEN AddInt(true_value, 1) ELSE true_value

Smaller(a, b) == IF a <= b THEN a ELSE b

Abs(x) == IF x < 0 THEN -x ELSE x

\* state.position.get(self.symbol, 0)
PositionOf(state, symbol) ==
    IF symbol \in DOMAIN state.position THEN state.position[symbol] ELSE 0

\* The locals of act before its first loop.  tv: what get_true_value returned
\* and the makeTrades it left; window: self.window after the append.
Locals(self, order_depth, position, tv, window) ==
    [symbol |-> self.symbol,
     true_value |-> tv.value,
     makeTrades |-> tv.makeTrades,
     buy_orders |-> SortedItemsReverse(order_depth.buy_orders),
     sell_orders |-> SortedItems(order_depth.sell_orders),
     position |-> position,
     to_buy |-> self.limit - position,
     to_sell |-> self.limit + position,
     window |-> window,
     soft_liquidate |-> SoftLiquidate(window),
     hard_liquidate |-> HardLiquidate(window),
     max_buy_price |-> MaxBuyPrice(tv.value, position, self.limit),
     min_sell_price |-> MinSellPrice(tv.value, position, self.limit)]

\* In the steps below acc is [raised, left, book]: whether an exception was
\* raised, the to_buy (to_sell) that is left, and the orders placed so far.

\* for price, volume in sell_orders: buy what is priced at or below max_buy_price
RECURSIVE TakeSells(_, _, _)
TakeSells(c, sell_orders, acc) ==
    IF sell_orders = <<>> THEN acc
    ELSE LET price == sell_orders[1][1]
             volume == sell_orders[1][2]
             quantity == Smaller(acc.left, -volume)
         IN  IF acc.left > 0 /\ Le(FromInt(price), c.max_buy_price) /\ c.makeTrades
                 THEN TakeSells(c, Tail(sell_orders),
                          [raised |-> FALSE, left |-> acc.left - quantity,
                           book |-> buy(acc.book, c.symbol, FromInt(price), quantity, "take")])
             ELSE TakeSells(c, Tail(sell_orders), acc)

\* if to_buy > 0 and hard_liquidate: buy to_buy // 2 at true_value
HardBuy(c, acc) ==
    IF acc.left > 0 /\ c.hard_liquidate
        THEN [raised |-> FALSE, left |-> acc.left - (acc.left \div 2),
              book |-> buy(acc.book, c.symbol, c.true_value, acc.left \div 2, "hard")]
    ELSE acc

\* if to_buy > 0 and soft_liquidate: buy to_buy at true_value - 2
SoftBuy(c, acc) ==
    IF acc.left > 0 /\ c.soft_liquidate
        THEN [raised |-> FALSE, left |-> acc.left - acc.left,
              book |-> buy(acc.book, c.symbol, AddInt(c.true_value, -2), acc.left, "soft")]
    ELSE acc

\* PassiveBuy quoting popular_buy_price + 1 without the min with max_buy_price
PassiveBuyUncapped(c, acc) ==
    IF acc.left > 0 /\ c.makeTrades
        THEN IF c.buy_orders = <<>>
                 THEN [raised |-> TRUE, left |-> acc.left, book |-> acc.book]
             ELSE [raised |-> FALSE, left |-> acc.left,
                   book |-> buy(acc.book, c.symbol,
                                FromInt(popular_buy_price(c.buy_orders) + 1),
                                acc.left, "quote")]
    ELSE acc

\* if to_buy > 0 and self.makeTrades: quote one above the popular buy price;
\* max() of an empty buy_orders raises ValueError
PassiveBuy(c, acc) ==
    IF acc.left > 0 /\ c.makeTrades
        THEN IF c.buy_orders = <<>>
                 THEN [raised |-> TRUE, left |-> acc.left, book |-> acc.book]
             ELSE [raised |-> FALSE, left |-> acc.left,
                   book |-> buy(acc.book, c.symbol,
                                PyMin(c.max_buy_price,
                                      FromInt(popular_buy_price(c.buy_orders) + 1)),
                                acc.left, "quote")]
    ELSE acc

\* for price, volume in buy_orders: sell what is priced at or above min_sell_price
RECURSIVE TakeBuys(_, _, _)
TakeBuys(c, buy_orders, acc) ==
    IF buy_orders = <<>> THEN acc
    ELSE LET price == buy_orders[1][1]
             volume == buy_orders[1][2]
             quantity == Smaller(acc.left, volume)
         IN  IF acc.left > 0 /\ Le(c.min_sell_price, FromInt(price)) /\ c.makeTrades
                 THEN TakeBuys(c, Tail(buy_orders),
                          [raised |-> FALSE, left |-> acc.left - quantity,
                           book |-> sell(acc.book, c.symbol, FromInt(price), quantity, "take")])
             ELSE TakeBuys(c, Tail(buy_orders), acc)

\* HardSell without `to_sell -= quantity`
HardSellKeepsHeadroom(c, acc) ==
    IF acc.left > 0 /\ c.hard_liquidate
        THEN [raised |-> FALSE, left |-> acc.left,
              book |-> sell(acc.book, c.symbol, c.true_value, acc.left \div 2, "hard")]
    ELSE acc

\* if to_sell > 0 and hard_liquidate: sell to_sell // 2 at true_value
HardSell(c, acc) ==
    IF acc.left > 0 /\ c.hard_liquidate
        THEN [raised |-> FALSE, left |-> acc.left - (acc.left \div 2),
              book |-> sell(acc.book, c.symbol, c.true_value, acc.left \div 2, "hard")]
    ELSE acc

\* if to_sell > 0 and soft_liquidate: sell to_sell // 2 at true_value + 2
SoftSell(c, acc) ==
    IF acc.left > 0 /\ c.soft_liquidate
        THEN [raised |-> FALSE, left |-> acc.left - (acc.left \div 2),
              book |-> sell(acc.book, c.symbol, AddInt(c.true_value, 2),
                            acc.left \div 2, "soft")]
    ELSE acc

\* if to_sell > 0 and self.makeTrades: quote one below the popular sell price;
\* min() of an empty sell_orders raises ValueError
PassiveSell(c, acc) ==
    IF acc.left > 0 /\ c.makeTrades
        THEN IF c.sell_orders = <<>>
                 THEN [raised |-> TRUE, left |-> acc.left, book |-> acc.book]
             ELSE [raised |-> FALSE, left |-> acc.left,
                   book |-> sell(acc.book, c.symbol,
                                 PyMax(c.min_sell_price,
                                       FromInt(popular_sell_price(c.sell_orders) - 1)),
                                 acc.left, "quote")]
    ELSE acc

\* the buy side quoting before it liquidates
BuySideQuotesFirst(c) ==
    SoftBuy(c, HardBuy(c, PassiveBuy(c,
        TakeSells(c, c.sell_orders,
                  [raised |-> FALSE, left |-> c.to_buy, book |-> NoOrders]))))

\* lines 211-239 of act: the buy side
BuySide(c) ==
    PassiveBuy(c, SoftBuy(c, HardBuy(c,
        TakeSells(c, c.sell_orders,
                  [raised |-> FALSE, left |-> c.to_buy, book |-> NoOrders]))))

\* lines 241-270 of act: the sell side, reached unless the buy side raised
SellSide(c, bought) ==
    IF bought.raised THEN bought
    ELSE PassiveSell(c, SoftSell(c, HardSell(c,
             TakeBuys(c, c.buy_orders,
                      [raised |-> FALSE, left |-> c.to_sell, book |-> bought.book]))))

\* what a call of Strategy.run leaves: the instance, self.orders, and act's locals
Acted(self, c, done) ==
    [raised |-> done.raised,
     self |-> [self EXCEPT !.window = c.window, !.makeTrades = c.makeTrades],
     orders |-> done.book.orders,
     steps |-> done.book.steps,
     sides |-> done.book.sides,
     position |-> c.position,
     true_value |-> c.true_value,
     soft_liquidate |-> c.soft_liquidate,
     hard_liquidate |-> c.hard_liquidate,
     max_buy_price |-> c.max_buy_price,
     min_sell_price |-> c.min_sell_price]

Place(self, c) == Acted(self, c, SellSide(c, BuySide(c)))

\* Strategy.run with MarketMakingStrategy.act: the orders of one product for
\* one tick, and the instance as the call leaves it
Act(self, state) ==
    Place(self,
          Locals(self, state.order_depths[self.symbol],
                 PositionOf(state, self.symbol),
                 get_true_value(self, state),
                 AppendWindow(self.window,
                              Abs(PositionOf(state, self.symbol)) = self.limit)))

\* save writing the window without its oldest entry
SaveDropsOldest(self) ==
    JList(IF self.window = <<>> THEN <<>> ELSE Tail(self.window))

\* load doing nothing, like Strategy.load
LoadIgnored(self, data) == [raised |-> FALSE, self |-> self]

\* MarketMakingStrategy.save
save(self) == JList(self.window)

\* MarketMakingStrategy.load: deque(data) raises TypeError unless data is a list
load(self, data) ==
    IF data.kind = "list"
        THEN [raised |-> FALSE, self |-> [self EXCEPT !.window = data.items]]
    ELSE [raised |-> TRUE, self |-> self]

-----------------------------------------------------------------------------
(* Trader. *)

SymbolSet == {Symbols[i] : i \in 1..Len(Symbols)}

\* Trader.__init__
NewTrader == [s \in SymbolSet |-> NewStrategy(s, limits[s])]

\* what one iteration of the loop in Trader.run did for a product that was not run
Skipped(loaded, before, self) ==
    [loaded |-> loaded, ran |-> FALSE, raised |-> FALSE,
     before |-> before, after |-> self.window,
     orders |-> <<>>, steps |-> <<>>, sides |-> <<>>,
     position |-> 0, true_value |-> FromInt(0),
     makeTrades |-> self.makeTrades,
     soft_liquidate |-> FALSE, hard_liquidate |-> FALSE,
     max_buy_price |-> FromInt(0), min_sell_price |-> FromInt(0)]

\* and for a product whose policy ran
Ran(loaded, before, a) ==
    [loaded |-> loaded, ran |-> TRUE, raised |-> a.raised,
     before |-> before, after |-> a.self.window,
     orders |-> a.orders, steps |-> a.steps, sides |-> a.sides,
     position |-> a.position,
     true_value |-> a.true_value, makeTrades |-> a.self.makeTrades,
     soft_liquidate |-> a.soft_liquidate, hard_liquidate |-> a.hard_liquidate,
     max_buy_price |-> a.max_buy_price, min_sell_price |-> a.min_sell_price]

\* acc: [raised, strategies, orders, new_trader_data, trace], what the loop of
\* Trader.run has done so far.

\* Saved with the save under the tests of the loop: done only for a product
\* that was loaded or run
SavedWhenTouched(acc, symbol, self, t) ==
    [raised |-> FALSE,
     strategies |-> [acc.strategies EXCEPT ![symbol] = self],
     orders |-> acc.orders,
     new_trader_data |-> IF t.loaded \/ t.ran
                             THEN Append(acc.new_trader_data, <<symbol, save(self)>>)
                         ELSE acc.new_trader_data,
     trace |-> [acc.trace EXCEPT ![symbol] = t]]

\* new_trader_data[symbol] = strategy.save()
Saved(acc, symbol, self, t) ==
    [raised |-> FALSE,
     strategies |-> [acc.strategies EXCEPT ![symbol] = self],
     orders |-> acc.orders,
     new_trader_data |-> Append(acc.new_trader_data, <<symbol, save(self)>>),
     trace |-> [acc.trace EXCEPT ![symbol] = t]]

Failed(acc, symbol, self, t) ==
    [raised |-> TRUE,
     strategies |-> [acc.strategies EXCEPT ![symbol] = self],
     orders |-> acc.orders,
     new_trader_data |-> acc.new_trader_data,
     trace |-> [acc.trace EXCEPT ![symbol] = t]]

\* orders[symbol] = strategy.run(state)
WithOrders(acc, symbol, orders) ==
    [acc EXCEPT !.orders = [k \in DOMAIN acc.orders \cup {symbol} |->
                               IF k = symbol THEN orders ELSE acc.orders[k]]]

AfterRun(acc, symbol, loaded, before, a) ==
    IF a.raised THEN Failed(acc, symbol, a.self, Ran(loaded, before, a))
    ELSE Saved(WithOrders(acc, symbol, a.orders), symbol, a.self,
               Ran(loaded, before, a))

\* if symbol in state.order_depths: orders[symbol] = strategy.run(state)
AfterLoad(acc, symbol, state, loaded, l) ==
    IF l.raised
        THEN Failed(acc, symbol, l.self,
                    [Skipped(TRUE, l.self.window, l.self) EXCEPT !.raised = TRUE])
    ELSE IF symbol \in DOMAIN state.order_depths
        THEN AfterRun(acc, symbol, loaded, l.self.window, Act(l.self, state))
    ELSE Saved(acc, symbol, l.self, Skipped(loaded, l.self.window, l.self))

\* the body of `for symbol, strategy in self.strategies.items()` for one symbol:
\* if symbol in old_trader_data: strategy.load(old_trader_data.get(symbol, None))
RunSymbol(acc, symbol, state, old_trader_data) ==
    AfterLoad(acc, symbol, state, symbol \in DOMAIN old_trader_data,
              IF symbol \in DOMAIN old_trader_data
                  THEN load(acc.strategies[symbol], old_trader_data[symbol])
              ELSE [raised |-> FALSE, self |-> acc.strategies[symbol]])

RECURSIVE RunSymbols(_, _, _, _)
RunSymbols(acc, i, state, old_trader_data) ==
    IF i > Len(Symbols) \/ acc.raised THEN acc
    ELSE RunSymbols(RunSymbol(acc, Symbols[i], state, old_trader_data),
                    i + 1, state, old_trader_data)

NoOrderMap == [k \in {} |-> <<>>]

Untouched(trader) == [s \in SymbolSet |-> Skipped(FALSE, trader[s].window, trader[s])]

\* return orders, conversions, trader_data; nothing is returned when raised
Returned(r) ==
    IF r.raised
        THEN [raised |-> TRUE, strategies |-> r.strategies, orders |-> NoOrderMap,
              conversions |-> 0, trader_data |-> <<>>, trace |-> r.trace]
    ELSE [raised |-> FALSE, strategies |-> r.strategies, orders |-> r.orders,
          conversions |-> 0, trader_data |-> dumps(r.new_trader_data),
          trace |-> r.trace]

\* `symbol in old_trader_data` raises TypeError when the decoded value is null or
\* a number, and is False for every symbol when it is a list of booleans
RunLoop(trader, state, parsed) ==
    IF ~parsed.ok \/ parsed.kind \in {"null", "number"}
        THEN [raised |-> TRUE, strategies |-> trader, orders |-> NoOrderMap,
              conversions |-> 0, trader_data |-> <<>>, trace |-> Untouched(trader)]
    ELSE Returned(RunSymbols([raised |-> FALSE, strategies |-> trader,
                              orders |-> NoOrderMap, new_trader_data |-> <<>>,
                              trace |-> Untouched(trader)],
                             1, state, parsed.dict))

\* Trader.run on a Trader whose strategies are `trader`; conversions is the 0 it
\* returns.  raised: the call ended in an exception and returned nothing.
\* old_trader_data = json.loads(state.traderData) if state.traderData != "" else {}
TraderRun(trader, state) ==
    RunLoop(trader, state,
            IF state.traderData # <<>> THEN loads(state.traderData)
            ELSE [ok |-> TRUE, kind |-> "object", dict |-> EmptyDict])

-----------------------------------------------------------------------------
(* The ticks the caller sends: TradingState without its traderData. *)

Nothing == [p \in {} |-> 0]

OrderDepth(buy_orders, sell_orders) ==
    [buy_orders |-> buy_orders, sell_orders |-> sell_orders]

Trade(price, quantity, timestamp) ==
    [price |-> price, quantity |-> quantity, timestamp |-> timestamp]

ResinQuiet == OrderDepth((9995 :> 5) @@ (9996 :> 20) @@ (9998 :> 3),
                         (10002 :> -3) @@ (10004 :> -20) @@ (10005 :> -5))
ResinCrossed == OrderDepth((10002 :> 4) @@ (10000 :> 1) @@ (9995 :> 20),
                           (9998 :> -5) @@ (10000 :> -3) @@ (10004 :> -20))
ResinDeep == OrderDepth((10001 :> 120), (9999 :> -120))
EmptyBook == OrderDepth(Nothing, Nothing)

KelpQuiet == OrderDepth((98 :> 5) @@ (99 :> 20) @@ (100 :> 3),
                        (102 :> -4) @@ (103 :> -20))
KelpCrossed == OrderDepth((102 :> 4) @@ (101 :> 1) @@ (95 :> 20),
                          (100 :> -3) @@ (101 :> -2) @@ (104 :> -20))
KelpDeep == OrderDepth((101 :> 120), (100 :> -120))

\* books that fill all but one unit of the headroom of a product at its limit
ResinSweep == OrderDepth((9990 :> 5), (9999 :> -99))
KelpSweep == OrderDepth((101 :> 99), (105 :> -5))

TwoTrades == <<Trade(100, 2, 0), Trade(102, 2, 50)>>
OneTrade == <<Trade(101, 3, 100)>>

Snapshot(order_depths, position, market_trades) ==
    [timestamp |-> 100, order_depths |-> order_depths, position |-> position,
     market_trades |-> market_trades]

\* both products are in the book and at their limits
SaturatedSnapshots ==
    { Snapshot((RESIN :> ResinQuiet) @@ (KELP :> KelpQuiet),
               (RESIN :> 50) @@ (KELP :> 50), (KELP :> TwoTrades)),
      Snapshot((RESIN :> ResinCrossed) @@ (KELP :> KelpCrossed),
               (RESIN :> -50) @@ (KELP :> -50), (KELP :> TwoTrades)),
      Snapshot((RESIN :> EmptyBook) @@ (KELP :> EmptyBook),
               (RESIN :> 50) @@ (KELP :> 50), (KELP :> TwoTrades)),
      Snapshot((RESIN :> ResinQuiet) @@ (KELP :> EmptyBook),
               (RESIN :> -50) @@ (KELP :> 50), (KELP :> <<>>)),
      Snapshot((RESIN :> ResinSweep) @@ (KELP :> KelpSweep),
               (RESIN :> -50) @@ (KELP :> 50), (KELP :> TwoTrades)) }

\* a product is missing from the book, or off its limit
VariedSnapshots ==
    { Snapshot((RESIN :> ResinQuiet),
               (RESIN :> 50) @@ (KELP :> 50), [p \in {} |-> <<>>]),
      Snapshot((KELP :> KelpQuiet),
               (RESIN :> 50) @@ (KELP :> -50), [p \in {} |-> <<>>]),
      Snapshot((RESIN :> ResinCrossed) @@ (KELP :> KelpCrossed),
               (RESIN :> 0) @@ (KELP :> 0), (KELP :> TwoTrades)),
      Snapshot((RESIN :> ResinQuiet) @@ (KELP :> KelpQuiet),
               (RESIN :> 26) @@ (KELP :> -26), (KELP :> OneTrade)),
      Snapshot((RESIN :> ResinDeep) @@ (KELP :> KelpDeep),
               (RESIN :> -49) @@ (KELP :> 49), (KELP :> TwoTrades)),
      Snapshot((RESIN :> ResinQuiet) @@ (KELP :> EmptyBook),
               Nothing, (KELP :> TwoTrades)) }

Snapshots == SaturatedSnapshots \cup VariedSnapshots

WithTraderData(snapshot, data) ==
    [timestamp |-> snapshot.timestamp, traderData |-> data,
     order_depths |-> snapshot.order_depths, position |-> snapshot.position,
     market_trades |-> snapshot.market_trades]

\* state strings a caller may send instead of the one it was given: well-formed ...
SubstitutedData ==
    { <<>>,
      dumps(<<>>),
      dumps(<< <<RESIN, JList(<<TRUE, FALSE>>)>> >>),
      dumps(<< <<KELP, JList(<<FALSE, TRUE, TRUE>>)>> >>),
      dumps(<< <<"SQUID_INK", JNull>>, <<KELP, JList(<<>>)>>,
               <<RESIN, JList([i \in 1..(window_size - 1) |-> TRUE])>> >>) }

\* ... and malformed: text that does not decode, payloads that are no list
MalformedData ==
    { <<"{">>,
      <<"[", "true", "]">>,
      <<"{", "\"", KELP, "\"", ":", "[", "true", ",", "]", "}">>,
      dumps(<< <<RESIN, JNull>> >>),
      dumps(<< <<RESIN, JList(<<TRUE>>)>>, <<KELP, JNumber>> >>) }

-----------------------------------------------------------------------------
(* The caller. *)

NoRun(trader) ==
    [state |-> WithTraderData(Snapshot([p \in {} |-> EmptyBook], Nothing,
                                       [p \in {} |-> <<>>]), <<>>),
     raised |-> FALSE, orders |-> NoOrderMap, conversions |-> 0,
     trader_data |-> <<>>,
     trace |-> Untouched(trader)]

Init ==
    /\ strategies = NewTrader
    /\ traderData = <<>>
    /\ last = NoRun(NewTrader)
    /\ freshData = <<>>
    /\ lastFresh = NoRun(NewTrader)
    /\ ticks = 0
    /\ varied = 0
    /\ streak = [s \in SymbolSet |-> 0]
    /\ verbatim = TRUE
    /\ pc = "idle"

Outcome(state, r) ==
    [state |-> state, raised |-> r.raised, orders |-> r.orders,
     conversions |-> r.conversions, trader_data |-> r.trader_data, trace |-> r.trace]

\* the caller keeps what the two Traders returned
Keep(state, r, fstate, f) ==
    /\ strategies' = r.strategies
    /\ last' = Outcome(state, r)
    /\ lastFresh' = Outcome(fstate, f)
    /\ traderData' = IF r.raised THEN traderData ELSE r.trader_data
    /\ freshData' = IF f.raised THEN freshData ELSE f.trader_data
    /\ pc' = IF r.raised \/ f.raised THEN "raised" ELSE "idle"
    /\ ticks' = ticks + 1
    /\ streak' = [s \in SymbolSet |->
                     IF ~r.trace[s].ran THEN streak[s]
                     ELSE IF Abs(PositionOf(state, s)) # limits[s] THEN 0
                     ELSE Smaller(streak[s] + 1, window_size)]

\* One tick: the long-lived Trader runs on `data`, and a Trader constructed for
\* this tick runs on `fdata`, both on the same snapshot.
Tick(snapshot, data, fdata) ==
    Keep(WithTraderData(snapshot, data),
         TraderRun(strategies, WithTraderData(snapshot, data)),
         WithTraderData(snapshot, fdata),
         TraderRun(NewTrader, WithTraderData(snapshot, fdata)))

Pick(snapshot) ==
    IF snapshot \in SaturatedSnapshots THEN varied' = varied
    ELSE varied < MaxVaried /\ varied' = varied + 1

\* the caller passes back the state string the previous tick returned
RunVerbatim ==
    /\ pc = "idle"
    /\ ticks < MaxTicks
    /\ verbatim \/ ticks < MaxReplayTicks
    /\ \E snapshot \in Snapshots :
           /\ Pick(snapshot)
           /\ Tick(snapshot, traderData, freshData)
    /\ UNCHANGED verbatim

\* the caller passes some other well-formed state string
RunSubstituted ==
    /\ pc = "idle"
    /\ ticks < MaxReplayTicks
    /\ \E snapshot \in Snapshots, data \in SubstitutedData :
           /\ Pick(snapshot)
           /\ Tick(snapshot, data, data)
    /\ verbatim' = FALSE

\* the caller passes a malformed state string
RunMalformed ==
    /\ pc = "idle"
    /\ ticks < MaxReplayTicks
    /\ \E snapshot \in Snapshots, data \in MalformedData :
           /\ Pick(snapshot)
           /\ Tick(snapshot, data, data)
    /\ verbatim' = FALSE

Next == RunVerbatim

Spec == Init /\ [][Next]_vars

NextCaller == RunVerbatim \/ RunSubstituted

SpecCaller == Init /\ [][NextCaller]_vars

NextMalformed == RunVerbatim \/ RunSubstituted \/ RunMalformed

SpecMalformed == Init /\ [][NextMalformed]_vars

-----------------------------------------------------------------------------
(* Properties. *)

Ticked == ticks > 0
Completed == ticks > 0 /\ ~last.raised
ProcessedBy(outcome, s) == outcome.trace[s].ran
InBook(outcome, s) == s \in DOMAIN outcome.state.order_depths
PositionIn(outcome, s) ==
    IF s \in DOMAIN outcome.state.position THEN outcome.state.position[s] ELSE 0

RECURSIVE BuyTotal(_)
BuyTotal(orders) ==
    IF orders = <<>> THEN 0
    ELSE (IF orders[1].quantity > 0 THEN orders[1].quantity ELSE 0) + BuyTotal(Tail(orders))

RECURSIVE SellTotal(_)
SellTotal(orders) ==
    IF orders = <<>> THEN 0
    ELSE (IF orders[1].quantity < 0 THEN -orders[1].quantity ELSE 0) + SellTotal(Tail(orders))

StepsOf(outcome, s) == {outcome.trace[s].steps[i] : i \in 1..Len(outcome.trace[s].steps)}

\* C1: whenever a product's policy has run on a position within its limit, the
\* buy quantities of its orders sum to at most limit - position and the sell
\* quantities to at most limit + position.
C1_WithinLimit ==
    \A s \in SymbolSet :
        (ProcessedBy(last, s) /\ PositionIn(last, s) <= limits[s]
                              /\ PositionIn(last, s) >= -limits[s])
        => /\ BuyTotal(last.trace[s].orders) <= limits[s] - PositionIn(last, s)
           /\ SellTotal(last.trace[s].orders) <= limits[s] + PositionIn(last, s)
           /\ (s \in DOMAIN last.orders => last.orders[s] = last.trace[s].orders)

\* a tick that placed aggressive, hard, soft and passive orders on one side and
\* used the whole headroom of that side
C1_Witness ==
    \E s \in SymbolSet :
        /\ Completed /\ ProcessedBy(last, s)
        /\ {"hard", "soft", "quote"} \subseteq StepsOf(last, s)
        /\ SellTotal(last.orders[s]) = limits[s] + PositionIn(last, s)
        /\ SellTotal(last.orders[s]) > 0

\* C2: a product that has no entry in the previous-state string (or the string is
\* empty) and whose policy runs ends the tick with a window of exactly one entry.
C2_FreshWindow ==
    \A s \in SymbolSet :
        (Ticked /\ ProcessedBy(last, s) /\ ~last.trace[s].loaded)
        => Len(last.trace[s].after) = 1

\* C3: a tick given a malformed previous-state string does not fail: it returns
\* orders and a state string in which each processed product has a one-entry window.
C3_MalformedTolerated ==
    (Ticked /\ last.state.traderData \in MalformedData)
    => /\ ~last.raised
       /\ \A s \in SymbolSet : ProcessedBy(last, s) => Len(last.trace[s].after) = 1

\* C4: with the state string passed back verbatim, the long-lived Trader and a
\* Trader constructed for the tick return the same orders, conversions and state
\* string (or both raise) at every tick.
C4_SameAsFresh ==
    (Ticked /\ verbatim)
    => /\ last.raised = lastFresh.raised
       /\ last.orders = lastFresh.orders
       /\ last.conversions = lastFresh.conversions
       /\ last.trader_data = lastFresh.trader_data

\* both deployments reached a tick with a full window of which an entry was
\* evicted, and returned orders
C4_Witness ==
    /\ Completed /\ verbatim /\ ticks > window_size
    /\ ~lastFresh.raised
    /\ \E s \in SymbolSet :
           /\ s \in DOMAIN lastFresh.orders /\ lastFresh.orders[s] # <<>>
           /\ Len(lastFresh.trace[s].before) = window_size
           /\ ~lastFresh.trace[s].before[1]

\* the window of product s as the state string `text` holds it
WindowIn(text, s) == loads(text).dict[s].items

Saturated(outcome, s) ==
    PositionIn(outcome, s) = limits[s] \/ PositionIn(outcome, s) = -limits[s]

\* C5: every window (in the instance and in the returned state string) has at
\* most 10 entries; a tick that runs a policy appends one entry, |position| ==
\* limit, to the window the tick started with, and drops that window's oldest
\* entry when it already held 10.
C5_WindowFifo ==
    Ticked =>
    \A s \in SymbolSet :
        /\ Len(strategies[s].window) <= window_size
        /\ ~last.raised => Len(WindowIn(last.trader_data, s)) <= window_size
        /\ ProcessedBy(last, s) =>
               LET before == last.trace[s].before
                   after == last.trace[s].after
                   kept == IF Len(before) = window_size
                               THEN SubSeq(before, 2, window_size)
                           ELSE before
               IN  /\ Len(before) <= window_size
                   /\ after = kept \o <<Saturated(last, s)>>
        /\ (~last.raised /\ ~ProcessedBy(last, s)) =>
               last.trace[s].after = last.trace[s].before

\* a full window holding both values lost its oldest entry
C5_Witness ==
    \E s \in SymbolSet :
        /\ Completed /\ ProcessedBy(last, s)
        /\ Len(last.trace[s].before) = window_size
        /\ \E i, j \in 2..window_size :
               last.trace[s].before[i] /\ ~last.trace[s].before[j]
        /\ last.trace[s].before[1] # last.trace[s].before[2]

\* the window was restored from the state string, and is the one the previous
\* tick ended with
Restored(outcome, previous, s) ==
    /\ ~outcome.raised => outcome.trace[s].loaded
    /\ outcome.trace[s].loaded => outcome.trace[s].before = previous.trace[s].after

\* C6: the window a product starts a tick with, restored from the state string
\* (by a Trader constructed for the tick, which has nothing else, and by the
\* long-lived one), is the window it ended the previous tick with.
C6_RoundTrip ==
    [][(pc = "idle" /\ ticks > 0)
       => \A s \in SymbolSet : /\ Restored(lastFresh', lastFresh, s)
                               /\ Restored(last', last, s)]_vars

\* a window of several entries, true and false, was carried over
C6_Witness ==
    \E s \in SymbolSet :
        /\ ticks > 1 /\ lastFresh.trace[s].loaded
        /\ Len(lastFresh.trace[s].before) > 2
        /\ lastFresh.trace[s].before = WindowIn(lastFresh.state.traderData, s)
        /\ \E i, j \in 1..Len(lastFresh.trace[s].before) :
               lastFresh.trace[s].before[i] /\ ~lastFresh.trace[s].before[j]

\* C7: a configured product that is not in the tick's order book gets no orders,
\* its policy does not run and its window is left alone, and an entry for it in
\* the previous-state string is written unchanged into the new one.
C7_AbsentSkipped ==
    \A s \in SymbolSet :
        (Completed /\ ~InBook(last, s))
        => /\ s \notin DOMAIN last.orders
           /\ ~ProcessedBy(last, s)
           /\ last.trace[s].after = last.trace[s].before
           /\ (last.state.traderData # <<>>
               /\ s \in DOMAIN loads(last.state.traderData).dict)
              => /\ s \in DOMAIN loads(last.trader_data).dict
                 /\ loads(last.trader_data).dict[s]
                        = loads(last.state.traderData).dict[s]

\* a product with a non-empty entry was absent from the book
C7_Witness ==
    \E s \in SymbolSet :
        /\ Completed /\ ~InBook(last, s)
        /\ last.state.traderData # <<>>
        /\ s \in DOMAIN loads(last.state.traderData).dict
        /\ Len(WindowIn(last.state.traderData, s)) > 1
        /\ WindowIn(last.trader_data, s) = WindowIn(last.state.traderData, s)

\* the estimator's three not-tradable cases, read off the tick's trades
NotTradable(state) ==
    \/ KELP \notin DOMAIN state.market_trades
    \/ Len(state.market_trades[KELP]) < 2
    \/ \A i \in 1..Len(state.market_trades[KELP]) :
           state.market_trades[KELP][i].quantity = 0

\* C8: when the KELP estimator is not tradable, the KELP policy run completes
\* and places no aggressive fill and no passive quote, only hard or soft
\* liquidation orders.
C8_LiquidationOnly ==
    (Ticked /\ ProcessedBy(last, KELP) /\ NotTradable(last.state))
    => /\ ~last.trace[KELP].raised
       /\ ~last.trace[KELP].makeTrades
       /\ StepsOf(last, KELP) \subseteq {"hard", "soft"}

\* not tradable, and liquidation orders were placed
C8_Witness ==
    /\ Completed /\ ProcessedBy(last, KELP) /\ NotTradable(last.state)
    /\ StepsOf(last, KELP) = {"hard", "soft"}
    /\ last.orders[KELP] # <<>>

EmptySide(outcome, s) ==
    \/ DOMAIN outcome.state.order_depths[s].buy_orders = {}
    \/ DOMAIN outcome.state.order_depths[s].sell_orders = {}

\* C9: a tick in which a configured product is in the book with no resting buy
\* levels or no resting sell levels completes and returns a result.
C9_EmptyBookCompletes ==
    \A s \in SymbolSet :
        (Ticked /\ ProcessedBy(last, s) /\ EmptySide(last, s))
        => ~last.trace[s].raised /\ ~last.raised

\* C10: with the state string passed back verbatim from an empty window, a
\* processed tick has hard_liquidate exactly when it is at least the 10th in a
\* row of processed ticks that the product started at its limit.
C10_HardOnTenth ==
    \A s \in SymbolSet :
        (Ticked /\ ProcessedBy(last, s))
        => (last.trace[s].hard_liquidate <=> streak[s] >= window_size)

\* the 10th tick, after ten processed ticks at the limit
C10_Witness ==
    \E s \in SymbolSet :
        /\ ticks = window_size /\ ProcessedBy(last, s)
        /\ streak[s] = window_size
        /\ last.trace[s].hard_liquidate
        /\ Len(last.trace[s].before) = window_size - 1

\* where a step of act stands in the order the claim gives: aggressive fills,
\* then liquidation, then passive quotes
Rank(step) == IF step = "take" THEN 1 ELSE IF step = "quote" THEN 3 ELSE 2

\* C11 as stated: in the order list of one product for a tick, every aggressive
\* fill (of either side) comes before every liquidation order (of either side),
\* and every liquidation order before every passive quote (of either side).
C11_PhasesAcrossSides ==
    \A s \in SymbolSet :
        (Ticked /\ ProcessedBy(last, s))
        => \A i, j \in 1..Len(last.trace[s].steps) :
               i < j => Rank(last.trace[s].steps[i]) <= Rank(last.trace[s].steps[j])

\* C11: the order list of one product for a tick is its buy orders followed by
\* its sell orders, and within each side aggressive fills come before
\* liquidation orders and liquidation orders before the passive quote.
C11_PhasesWithinSide ==
    \A s \in SymbolSet :
        (Ticked /\ ProcessedBy(last, s))
        => LET steps == last.trace[s].steps
               sides == last.trace[s].sides
           IN  \A i, j \in 1..Len(steps) :
                   i < j => /\ sides[i] = "sell" => sides[j] = "sell"
                            /\ sides[i] = sides[j] => Rank(steps[i]) <= Rank(steps[j])

\* a tick in which a passive buy quote was placed before an aggressive sell
\* fill, and each side had its aggressive fill before its quote
C11_Witness ==
    \E s \in SymbolSet :
        /\ Completed /\ ProcessedBy(last, s)
        /\ \E i, j, k, l \in 1..Len(last.trace[s].steps) :
               /\ i < j /\ j < k /\ k < l
               /\ last.trace[s].steps[i] = "take" /\ last.trace[s].orders[i].quantity > 0
               /\ last.trace[s].steps[j] = "quote" /\ last.trace[s].orders[j].quantity > 0
               /\ last.trace[s].steps[k] = "take" /\ last.trace[s].orders[k].quantity < 0
               /\ last.trace[s].steps[l] = "quote" /\ last.trace[s].orders[l].quantity < 0

\* C12: in each not-tradable case of the KELP estimator (no trades for the
\* product, fewer than 2 trades, zero weighted-quantity denominator) it
\* returns the value 0 and leaves tradable false.
C12_ZeroWhenNotTradable ==
    (Ticked /\ ProcessedBy(last, KELP) /\ NotTradable(last.state))
    => /\ ~last.trace[KELP].makeTrades
       /\ last.trace[KELP].true_value.n = 0

\* C13: in every processed tick soft_liquidate and hard_liquidate are false
\* unless the window, after the tick's append and eviction, holds exactly 10
\* entries; with the state string passed back verbatim from an empty window
\* neither is true during the first 9 ticks.
C13_FlagsNeedFullWindow ==
    \A s \in SymbolSet :
        (Ticked /\ ProcessedBy(last, s))
        => /\ (last.trace[s].soft_liquidate \/ last.trace[s].hard_liquidate)
              => Len(last.trace[s].after) = window_size
           /\ (verbatim /\ ticks < window_size)
              => ~last.trace[s].soft_liquidate /\ ~last.trace[s].hard_liquidate

\* the tenth tick from an empty window: the window reached 10 entries, not all
\* of them true, and soft_liquidate was raised for the first time
C13_Witness ==
    \E s \in SymbolSet :
        /\ ProcessedBy(last, s) /\ verbatim
        /\ Len(last.trace[s].after) = window_size
        /\ Len(last.trace[s].before) = window_size - 1
        /\ last.trace[s].soft_liquidate
        /\ ~last.trace[s].hard_liquidate
        /\ ticks = window_size

\* C14: in every processed tick whose window is full, hard_liquidate implies
\* soft_liquidate.
C14_HardImpliesSoft ==
    \A s \in SymbolSet :
        (Ticked /\ ProcessedBy(last, s) /\ Len(last.trace[s].after) = window_size)
        => (last.trace[s].hard_liquidate => last.trace[s].soft_liquidate)

\* a full window of true entries: both flags raised, and both liquidation
\* steps placed orders
C14_Witness ==
    \E s \in SymbolSet :
        /\ Completed /\ ProcessedBy(last, s)
        /\ Len(last.trace[s].after) = window_size
        /\ last.trace[s].hard_liquidate /\ last.trace[s].soft_liquidate
        /\ {"hard", "soft"} \subseteq StepsOf(last, s)

\* product s is not in the tick's book and the previous-state string has no
\* entry for it
AbsentAndUnknown(outcome, s) ==
    /\ ~outcome.raised /\ ~InBook(outcome, s)
    /\ \/ outcome.state.traderData = <<>>
       \/ s \notin DOMAIN loads(outcome.state.traderData).dict

\* C15 as stated: for a configured product that is absent from the tick's book
\* and has no entry in the previous-state string, the returned state string
\* has no entry.
C15_NeverEmitted ==
    \A s \in SymbolSet :
        (Ticked /\ AbsentAndUnknown(last, s))
        => s \notin DOMAIN loads(last.trader_data).dict

\* C15: for a configured product that is absent from the tick's book and has
\* no entry in the previous-state string, the returned state string has an
\* entry: the window the Trader instance held for the product when the tick
\* began, which is the empty list for a Trader constructed for the tick.
C15_InstanceWindowEmitted ==
    [][\A s \in SymbolSet :
           /\ AbsentAndUnknown(last', s)
              => /\ s \in DOMAIN loads(last'.trader_data).dict
                 /\ loads(last'.trader_data).dict[s] = JList(strategies[s].window)
                 /\ strategies'[s].window = strategies[s].window
           /\ AbsentAndUnknown(lastFresh', s)
              => /\ s \in DOMAIN loads(lastFresh'.trader_data).dict
                 /\ loads(lastFresh'.trader_data).dict[s] = JList(<<>>)]_vars

\* an absent product without an entry was written with the entries the
\* long-lived instance held, and with none by the Trader constructed for the tick
C15_Witness ==
    \E s \in SymbolSet :
        /\ Ticked /\ AbsentAndUnknown(last, s) /\ AbsentAndUnknown(lastFresh, s)
        /\ Len(WindowIn(last.trader_data, s)) > 0
        /\ WindowIn(last.trader_data, s) = strategies[s].window
        /\ WindowIn(lastFresh.trader_data, s) = <<>>

\* |a - b| for numbers a and b, over the denominator a.d * b.d
Distance(a, b) == Abs(a.n * b.d - b.n * a.d)

\* C16: when the KELP estimator is given two trades of equal quantity, the
\* one with the later timestamp has a weight at least as large as the other,
\* and the estimate is at least as close to its price as to the older one's.
C16_RecentDominates ==
    (Ticked /\ ProcessedBy(last, KELP) /\ KELP \in DOMAIN last.state.market_trades)
    => LET temp == last.state.market_trades[KELP]
           cur_time == last.state.timestamp
           estimate == last.trace[KELP].true_value
       IN  \A i, j \in 1..Len(temp) :
               (Len(temp) = 2 /\ temp[i].quantity = temp[j].quantity
                /\ temp[i].quantity > 0
                /\ temp[i].timestamp < temp[j].timestamp)
               => /\ Weight100(cur_time, temp[j]) >= Weight100(cur_time, temp[i])
                  /\ Distance(estimate, FromInt(temp[j].price))
                         <= Distance(estimate, FromInt(temp[i].price))

\* a = b for numbers a and b
SameNumber(a, b) == IF a.d = b.d THEN a.n = b.n ELSE a.n * b.d = b.n * a.d

\* the quantity bought (sold) by the orders that are not passive quotes
RECURSIVE FilledBefore(_, _, _)
FilledBefore(orders, steps, sign) ==
    IF orders = <<>> THEN 0
    ELSE (IF steps[1] # "quote" /\ sign * orders[1].quantity > 0
              THEN sign * orders[1].quantity ELSE 0)
         + FilledBefore(Tail(orders), Tail(steps), sign)

\* the passive quotes of one side (sign 1: buy, -1: sell) among the orders
QuotesOf(t, sign) ==
    {i \in 1..Len(t.orders) : t.steps[i] = "quote" /\ sign * t.orders[i].quantity > 0}

C18_NonZeroQuantity ==
    \A s \in SymbolSet :
        (Ticked /\ ProcessedBy(last, s) /\ Abs(PositionIn(last, s)) <= limits[s])
        => \A i \in 1..Len(last.trace[s].orders) :
               IF last.trace[s].sides[i] = "buy"
                   THEN last.trace[s].orders[i].quantity > 0
               ELSE last.trace[s].orders[i].quantity < 0

\* the liquidation orders of one side among the orders of a tick
LiquidationsOf(t, side) ==
    {i \in 1..Len(t.orders) : t.steps[i] \in {"hard", "soft"} /\ t.sides[i] = side}

\* C19: in a processed tick a liquidation flag is true only if |position| ==
\* limit at the tick's start; hard and soft liquidation buy orders are placed
\* only at position == -limit and liquidation sell orders only at position ==
\* +limit, so never on both sides in one tick.
C19_LiquidationReduces ==
    \A s \in SymbolSet :
        (Ticked /\ ProcessedBy(last, s))
        => LET t == last.trace[s]
           IN  /\ (t.soft_liquidate \/ t.hard_liquidate)
                  => Abs(PositionIn(last, s)) = limits[s]
               /\ LiquidationsOf(t, "buy") # {} => PositionIn(last, s) = -limits[s]
               /\ LiquidationsOf(t, "sell") # {} => PositionIn(last, s) = limits[s]
               /\ LiquidationsOf(t, "buy") = {} \/ LiquidationsOf(t, "sell") = {}

\* hard and soft liquidation bought back a short position at the limit
C19_Witness ==
    \E s \in SymbolSet :
        /\ Completed /\ ProcessedBy(last, s)
        /\ PositionIn(last, s) = -limits[s]
        /\ last.trace[s].hard_liquidate
        /\ Cardinality(LiquidationsOf(last.trace[s], "buy")) = 2
        /\ \A i \in LiquidationsOf(last.trace[s], "buy") :
               last.trace[s].orders[i].quantity > 0

\* a <= b for numbers a and b
AtMost(a, b) == IF a.d = b.d THEN a.n <= b.n ELSE a.n * b.d <= b.n * a.d

\* C20: in a processed tick with |position| <= limit every buy order is
\* priced at or below max_buy_price, which is at or below true_value, and
\* every sell order at or above min_sell_price, which is at or above
\* true_value, whatever step placed it; so no buy order of the tick is priced
\* above a sell order of the tick.
C20_PricesBracketTrueValue ==
    \A s \in SymbolSet :
        (Ticked /\ ProcessedBy(last, s) /\ Abs(PositionIn(last, s)) <= limits[s])
        => LET t == last.trace[s]
           IN  /\ AtMost(t.max_buy_price, t.true_value)
               /\ AtMost(t.true_value, t.min_sell_price)
               /\ \A i \in 1..Len(t.orders) :
                      /\ t.sides[i] = "buy"
                         => /\ AtMost(t.orders[i].price, t.max_buy_price)
                            /\ AtMost(t.orders[i].price, t.true_value)
                      /\ t.sides[i] = "sell"
                         => /\ AtMost(t.min_sell_price, t.orders[i].price)
                            /\ AtMost(t.true_value, t.orders[i].price)
               /\ \A i, j \in 1..Len(t.orders) :
                      (t.sides[i] = "buy" /\ t.sides[j] = "sell")
                      => AtMost(t.orders[i].price, t.orders[j].price)

\* a tick that bought and sold at the true value itself, and quoted on both
\* sides of it
C20_Witness ==
    \E s \in SymbolSet :
        /\ Completed /\ ProcessedBy(last, s)
        /\ \E i, j, k, l \in 1..Len(last.trace[s].orders) :
               /\ last.trace[s].sides[i] = "buy" /\ last.trace[s].steps[i] = "take"
               /\ last.trace[s].sides[j] = "sell" /\ last.trace[s].steps[j] = "take"
               /\ SameNumber(last.trace[s].orders[i].price, last.trace[s].true_value)
               /\ SameNumber(last.trace[s].orders[j].price, last.trace[s].true_value)
               /\ last.trace[s].sides[k] = "buy" /\ last.trace[s].steps[k] = "quote"
               /\ last.trace[s].sides[l] = "sell" /\ last.trace[s].steps[l] = "quote"

\* C21: every order of a processed tick, of either product and whatever step
\* placed it, has an integer price.
C21_IntegerPrices ==
    \A s \in SymbolSet :
        (Ticked /\ ProcessedBy(last, s))
        => \A i \in 1..Len(last.trace[s].orders) :
               IsIntegral(last.trace[s].orders[i].price)

====
